---- MODULE Spec2Model ----
(***************************************************************************)
(* Model of the assistant invocation pipeline of claude-code_bitbucket:    *)
(* the entry point (main), the two mode bodies (runReviewMode, runTagMode) *)
(* and the pure helpers they rest on (request extraction/classification,   *)
(* glob matching, diff filtering, tool policies).                          *)
(*                                                                         *)
(* JavaScript strings are TLA+ strings; a character is a string of length  *)
(* one, read with SubSeq.  undefined/null objects are the record Null, an  *)
(* undefined number is 0 and an undefined string is "" (all falsy in JS).  *)
(***************************************************************************)
EXTENDS Integers, Sequences, FiniteSets, TLC

VARIABLES
    entry,          \* which exported operation started the run
    config,         \* the Config record (built once, read-only afterwards)
    pc,             \* position of the run
    pr,             \* runReviewMode: PR metadata or Null
    diff,           \* runReviewMode: the local diff
    comments,       \* runTagMode: the fetched comments
    triggerComment, \* runTagMode: the selected comment or Null
    userRequest,    \* runTagMode: the extracted request
    isActionable,   \* runTagMode: the classification
    invocation,     \* the runClaude call: prompt and tool policy, or Null
    child,          \* the spawned process as seen by runClaude
    result,         \* the ClaudeResult the runClaude promise resolved with, or Null
    calls,          \* log of the calls made on the host client
    modeResult,     \* the ReviewResult / TagResult returned, or Null
    exitCode,       \* process.exit code of main, -1 while running
    unit            \* a direct call of an exported pure function

vars == <<entry, config, pc, pr, diff, comments, triggerComment, userRequest,
          isActionable, invocation, child, result, calls, modeResult,
          exitCode, unit>>

Null == [null |-> TRUE]

(***************************************************************************)
(* Bounds of the model.                                                    *)
(***************************************************************************)
MaxComments == 2
MaxWords == 3
MaxChunks == 2
MaxLines == 2
MaxPathLen == 3
MaxPatternLen == 3
MaxTools == 2

(***************************************************************************)
(* String primitives of the JavaScript runtime.                            *)
(***************************************************************************)
At(s, i) == SubSeq(s, i, i)

UPPER == "ABCDEFGHIJKLMNOPQRSTUVWXYZ"
LOWER == "abcdefghijklmnopqrstuvwxyz"
DIGITS == "0123456789"

CharsOf(s) == {At(s, i) : i \in 1..Len(s)}

\* the lower-case letter of every upper-case letter
LowerMap ==
    [c \in CharsOf(UPPER) |-> At(LOWER, CHOOSE i \in 1..Len(UPPER) : At(UPPER, i) = c)]

LowerChar(c) == IF c \in DOMAIN LowerMap THEN LowerMap[c] ELSE c

RECURSIVE toLowerCase(_)
toLowerCase(s) ==
    IF s = "" THEN "" ELSE LowerChar(At(s, 1)) \o toLowerCase(Tail(s))

\* String.prototype.indexOf: 0-based index of the first occurrence, or -1
indexOf(s, t) ==
    LET hits == {i \in 0..(Len(s) - Len(t)) : SubSeq(s, i + 1, i + Len(t)) = t}
    IN IF hits = {} THEN -1 ELSE CHOOSE i \in hits : \A j \in hits : i <= j

includes(s, t) == indexOf(s, t) # -1

\* String.prototype.substring(start) / substring(start, end), 0-based
substring(s, start) == SubSeq(s, start + 1, Len(s))

substring2(s, start, end) ==
    SubSeq(s, start + 1, IF end < Len(s) THEN end ELSE Len(s))

WhiteSpace == {" ", "\n", "\t", "\r"}

\* String.prototype.trim
trim(s) ==
    LET keep == {i \in 1..Len(s) : At(s, i) \notin WhiteSpace}
    IN IF keep = {} THEN ""
       ELSE SubSeq(s, CHOOSE i \in keep : \A j \in keep : i <= j,
                      CHOOSE i \in keep : \A j \in keep : i >= j)

(***************************************************************************)
(* The regular expressions of shared/constants.ts.  A pattern is a record; *)
(* RegexTest is RegExp.prototype.test for the three shapes that occur.     *)
(***************************************************************************)
\* \w of a JavaScript regular expression
WordChars == CharsOf(UPPER) \cup CharsOf(LOWER) \cup CharsOf(DIGITS) \cup {"_"}

IsWordChar(c) == c \in WordChars

\* \b at offset i (between character i and character i+1)
WordBoundary(s, i) ==
    LET before == i >= 1 /\ IsWordChar(At(s, i))
        after == i < Len(s) /\ IsWordChar(At(s, i + 1))
    IN before # after

\* occurrences of the literal w in s, as 0-based offsets
Occurrences(s, w) ==
    {i \in 0..(Len(s) - Len(w)) : SubSeq(s, i + 1, i + Len(w)) = w}

LineTerminators == {"\n", "\r"}

\* /\b(w1|w2|...)\b/
TestWords(words, s) ==
    \E w \in words : \E i \in Occurrences(s, w) :
        WordBoundary(s, i) /\ WordBoundary(s, i + Len(w))

\* /\b(p1|p2|...).*(k1|k2|...)/ : "." matches anything but a line terminator
TestThen(phrases, keywords, s) ==
    \E p \in phrases : \E i \in Occurrences(s, p) :
        /\ WordBoundary(s, i)
        /\ \E k \in keywords : \E j \in Occurrences(s, k) :
              /\ j >= i + Len(p)
              /\ \A m \in (i + Len(p) + 1)..j : At(s, m) \notin LineTerminators

\* /c$/ without the m flag: the last character of the input
TestEndsWith(c, s) == Len(s) >= 1 /\ At(s, Len(s)) = c

RegexTest(pattern, s) ==
    CASE pattern.kind = "words" -> TestWords(pattern.words, s)
      [] pattern.kind = "then" -> TestThen(pattern.phrases, pattern.keywords, s)
      [] pattern.kind = "ends" -> TestEndsWith(pattern.char, s)

ACTIONABLE_PATTERNS ==
    << [kind |-> "words",
        words |-> {"fix", "change", "update", "add", "remove", "delete",
                   "modify", "refactor", "implement", "create"}],
       [kind |-> "then",
        phrases |-> {"make it", "can you", "please", "could you"},
        keywords |-> {"change", "fix", "add", "update"}],
       [kind |-> "words",
        words |-> {"this should", "it should", "needs to"}] >>

INFORMATIONAL_PATTERNS ==
    << [kind |-> "words",
        words |-> {"what", "why", "how", "explain", "review", "check",
                   "look at", "analyze"}],
       [kind |-> "words",
        words |-> {"does this", "is this", "are there"}],
       [kind |-> "ends", char |-> "?"] >>

\* Array.prototype.some over a pattern list
SomeMatch(patterns, s) == \E i \in DOMAIN patterns : RegexTest(patterns[i], s)

(***************************************************************************)
(* modes/tag.ts: the request helpers.                                      *)
(***************************************************************************)
classifyRequest_informationalFirst(request) ==
    LET lower == toLowerCase(request)
    IN IF SomeMatch(INFORMATIONAL_PATTERNS, lower) THEN FALSE
       ELSE SomeMatch(ACTIONABLE_PATTERNS, lower)

classifyRequest(request) ==
    LET lower == toLowerCase(request)
    IN IF SomeMatch(ACTIONABLE_PATTERNS, lower) THEN TRUE
       ELSE IF SomeMatch(INFORMATIONAL_PATTERNS, lower) THEN FALSE
       ELSE FALSE

extractRequest_noFallback(content, triggerPhrase) ==
    LET lower == toLowerCase(content)
        idx == indexOf(lower, toLowerCase(triggerPhrase))
    IN IF idx = -1 THEN content
       ELSE trim(substring(content, idx + Len(triggerPhrase)))

extractRequest(content, triggerPhrase) ==
    LET lower == toLowerCase(content)
        idx == indexOf(lower, toLowerCase(triggerPhrase))
        afterTrigger == trim(substring(content, idx + Len(triggerPhrase)))
    IN IF idx = -1 THEN content
       ELSE IF afterTrigger # "" THEN afterTrigger ELSE content

(***************************************************************************)
(* project-config.ts: glob matching.  matchesPattern compiles the glob to  *)
(* a regular expression by successive replacements; GlobTokens is the      *)
(* outcome of those replacements read left to right ("**" is replaced      *)
(* before "*"), and RegexMatchFrom is the anchored match of that regex.    *)
(***************************************************************************)
RECURSIVE ReplaceAll(_, _, _)
ReplaceAll(s, from, to) ==
    IF s = "" THEN ""
    ELSE (IF At(s, 1) = from THEN to ELSE At(s, 1)) \o ReplaceAll(Tail(s), from, to)

RECURSIVE GlobTokens(_)
GlobTokens(p) ==
    IF p = "" THEN <<>>
    ELSE IF Len(p) >= 2 /\ SubSeq(p, 1, 2) = "**"
         THEN <<"**">> \o GlobTokens(SubSeq(p, 3, Len(p)))
         ELSE <<At(p, 1)>> \o GlobTokens(Tail(p))

RECURSIVE RegexMatchFrom(_, _, _, _)
RegexMatchFrom(path, i, toks, j) ==
    IF j > Len(toks) THEN i > Len(path)
    ELSE CASE toks[j] = "**" ->                       \* .*
                 \/ RegexMatchFrom(path, i, toks, j + 1)
                 \/ /\ i <= Len(path)
                    /\ At(path, i) \notin LineTerminators
                    /\ RegexMatchFrom(path, i + 1, toks, j)
           [] toks[j] = "*" ->                        \* [^/]*
                 \/ RegexMatchFrom(path, i, toks, j + 1)
                 \/ /\ i <= Len(path)
                    /\ At(path, i) # "/"
                    /\ RegexMatchFrom(path, i + 1, toks, j)
           [] toks[j] = "?" ->                        \* [^/]
                 /\ i <= Len(path)
                 /\ At(path, i) # "/"
                 /\ RegexMatchFrom(path, i + 1, toks, j + 1)
           [] OTHER ->                                \* an escaped literal
                 /\ i <= Len(path)
                 /\ At(path, i) = toks[j]
                 /\ RegexMatchFrom(path, i + 1, toks, j + 1)

\* a variant without the "**" replacement: every "*" is a single star
matchesPattern_noGlobstar(filePath, pattern) ==
    LET normalizedPath == ReplaceAll(filePath, "\\", "/")
        normalizedPattern == ReplaceAll(pattern, "\\", "/")
    IN RegexMatchFrom(normalizedPath, 1,
                      [i \in 1..Len(normalizedPattern) |-> At(normalizedPattern, i)], 1)

matchesPattern(filePath, pattern) ==
    LET normalizedPath == ReplaceAll(filePath, "\\", "/")
        normalizedPattern == ReplaceAll(pattern, "\\", "/")
    IN RegexMatchFrom(normalizedPath, 1, GlobTokens(normalizedPattern), 1)

\* a variant in which a matching include pattern is looked at first
shouldIncludeFile_includeFirst(filePath, include, exclude) ==
    IF Len(include) > 0 /\ \E i \in DOMAIN include : matchesPattern(filePath, include[i])
    THEN TRUE
    ELSE IF Len(include) > 0 THEN FALSE
    ELSE ~\E i \in DOMAIN exclude : matchesPattern(filePath, exclude[i])

\* include / exclude are lists of globs; <<>> stands for absent or empty
shouldIncludeFile(filePath, include, exclude) ==
    IF Len(exclude) > 0 /\ \E i \in DOMAIN exclude : matchesPattern(filePath, exclude[i])
    THEN FALSE
    ELSE IF Len(include) > 0
         THEN \E i \in DOMAIN include : matchesPattern(filePath, include[i])
         ELSE TRUE

(***************************************************************************)
(* utils/git.ts: the diff filter.                                          *)
(***************************************************************************)
\* diff.split(/(?=diff --git)/): a cut before every occurrence but offset 0
SplitBeforeHeader(s) ==
    LET cuts == Occurrences(s, "diff --git") \ {0}
        n == Cardinality(cuts)
        cut(k) == IF k = 0 THEN 0
                  ELSE IF k = n + 1 THEN Len(s)
                  ELSE CHOOSE c \in cuts : Cardinality({d \in cuts : d < c}) = k - 1
    IN [k \in 1..(n + 1) |-> SubSeq(s, cut(k - 1) + 1, cut(k))]

\* chunk.match(/^diff --git a\/(.+?) b\/(.+)/): group 2, or "" when no match
HeaderDestPath(chunk) ==
    LET pre == "diff --git a/"
        NoLT(a, b) == \A m \in a..b : At(chunk, m) \notin LineTerminators
        seps == {k \in Occurrences(chunk, " b/") :
                    /\ k >= Len(pre) + 1
                    /\ NoLT(Len(pre) + 1, k)
                    /\ k + 4 <= Len(chunk)
                    /\ At(chunk, k + 4) \notin LineTerminators}
        k0 == CHOOSE k \in seps : \A m \in seps : k <= m
        ends == {e \in (k0 + 4)..Len(chunk) :
                    /\ NoLT(k0 + 4, e)
                    /\ (e = Len(chunk) \/ At(chunk, e + 1) \in LineTerminators)}
    IN IF Len(chunk) < Len(pre) \/ SubSeq(chunk, 1, Len(pre)) # pre \/ seps = {}
       THEN ""
       ELSE SubSeq(chunk, k0 + 4, CHOOSE e \in ends : TRUE)

RECURSIVE join(_)
join(chunks) == IF chunks = <<>> THEN "" ELSE Head(chunks) \o join(Tail(chunks))

\* a variant that drops the chunks in which no header is recognised
filterDiffByPatterns_dropsPreamble(d, include, exclude) ==
    IF Len(include) = 0 /\ Len(exclude) = 0 THEN d
    ELSE LET fileChunks == SplitBeforeHeader(d)
             Keep(chunk) ==
                 /\ HeaderDestPath(chunk) # ""
                 /\ shouldIncludeFile(HeaderDestPath(chunk), include, exclude)
         IN join(SelectSeq(fileChunks, Keep))

filterDiffByPatterns(d, include, exclude) ==
    IF Len(include) = 0 /\ Len(exclude) = 0 THEN d
    ELSE LET fileChunks == SplitBeforeHeader(d)
             Keep(chunk) ==
                 /\ trim(chunk) # ""
                 /\ \/ HeaderDestPath(chunk) = ""
                    \/ shouldIncludeFile(HeaderDestPath(chunk), include, exclude)
         IN join(SelectSeq(fileChunks, Keep))

\* a variant without the early return, in which a file has to match a pattern
filterFilesByPatterns_noFastPath(files, include, exclude) ==
    LET Keep(file) ==
            /\ ~\E i \in DOMAIN exclude : matchesPattern(file, exclude[i])
            /\ \E i \in DOMAIN include : matchesPattern(file, include[i])
    IN SelectSeq(files, Keep)

filterFilesByPatterns(files, include, exclude) ==
    IF Len(include) = 0 /\ Len(exclude) = 0 THEN files
    ELSE LET Keep(file) == shouldIncludeFile(file, include, exclude)
         IN SelectSeq(files, Keep)

(***************************************************************************)
(* shared/constants.ts: the tool policies.                                 *)
(***************************************************************************)
MAX_DIFF_SIZE == 30000

READ_ONLY_TOOLS == <<"Read", "Grep", "Glob">>
\* a variant that also blocks a tool the read-only policy allows
BLOCKED_WRITE_TOOLS_withRead == <<"Read", "Write", "Edit", "MultiEdit", "Bash">>

BLOCKED_WRITE_TOOLS == <<"Write", "Edit", "MultiEdit", "Bash">>

FULL_ACCESS_TOOLS == <<"Read", "Edit", "Write", "Grep", "Glob", "Bash">>

TOOL_CONFIGS ==
    [readOnly |-> [allowedTools |-> READ_ONLY_TOOLS, blockedTools |-> BLOCKED_WRITE_TOOLS],
     fullAccess |-> [allowedTools |-> FULL_ACCESS_TOOLS, blockedTools |-> <<>>]]

\* a variant that merges the lists element by element
mergeToolConfig_elementWise(defaultConfig, projectConfig) ==
    IF projectConfig = Null THEN defaultConfig
    ELSE [allowedTools |-> projectConfig.allowed \o defaultConfig.allowedTools,
          blockedTools |-> projectConfig.blocked \o defaultConfig.blockedTools]

\* projectConfig is Null when no override is given; in it <<>> is an absent
\* or empty list
mergeToolConfig(defaultConfig, projectConfig) ==
    IF projectConfig = Null THEN defaultConfig
    ELSE [allowedTools |-> IF Len(projectConfig.allowed) > 0
                           THEN projectConfig.allowed
                           ELSE defaultConfig.allowedTools,
          blockedTools |-> IF Len(projectConfig.blocked) > 0
                           THEN projectConfig.blocked
                           ELSE defaultConfig.blockedTools]

Range(f) == {f[i] : i \in DOMAIN f}

(***************************************************************************)
(* Inputs of the model: the values the environment can hand to a run.      *)
(***************************************************************************)
ProjectConfigs ==
    { Null,
      [review |-> [include |-> <<"src/**", "*.lock">>,
                   exclude |-> <<"vendor/**", "*.lock">>]] }

\* loadConfig as called by main: every environment variable set or unset
MainConfigs ==
    [workspace : {"", "ws"}, repoSlug : {"", "repo"}, prId : {0, 7},
     destinationBranch : {"main"}, bitbucketToken : {"", "user:pass"},
     anthropicApiKey : {"", "sk-key"}, mode : {"review", "tag"},
     triggerPhrase : {"@claude"}, model : {"haiku"}, maxTurns : {30},
     projectConfig : ProjectConfigs]

\* the Config a caller hands to an exported mode body
DirectConfigs(m) ==
    {c \in MainConfigs :
        c.workspace # "" /\ c.repoSlug # "" /\ c.anthropicApiKey # "" /\ c.mode = m}

PullRequests ==
    {[title |-> "Add x", source |-> "feature/x", destination |-> "main"]}

FileChunks ==
    { "diff --git a/src/a.ts b/src/a.ts\n+x\n",
      "diff --git a/vendor/b.php b/vendor/b.php\n-y\n",
      "diff --git a/c.lock b/c.lock\n+z\n" }

RECURSIVE ConcatsUpTo(_, _)
ConcatsUpTo(parts, n) ==
    IF n = 0 THEN {""}
    ELSE LET shorter == ConcatsUpTo(parts, n - 1)
         IN shorter \cup {s \o p : s \in shorter, p \in parts}

\* what getLocalDiff can return ("" when there is no change or git failed)
Diffs == ConcatsUpTo(FileChunks, MaxChunks)

CommentTexts ==
    { "@claude fix this bug",
      "Hey @CLAUDE why is this async?",
      "@claude  ",
      "looks good, thanks" }

Timestamps == {1, 2}

RECURSIVE SeqsUpTo(_, _)
SeqsUpTo(S, n) ==
    IF n = 0 THEN {<<>>}
    ELSE LET shorter == SeqsUpTo(S, n - 1)
         IN shorter \cup {Append(q, x) : q \in shorter, x \in S}

\* what getComments can return; a comment's id is 100 + its position
CommentLists ==
    LET raw == SeqsUpTo(CommentTexts \X Timestamps, MaxComments)
    IN {[i \in 1..Len(q) |->
            [id |-> 100 + i, content |-> [raw |-> q[i][1]], created_on |-> q[i][2],
             inline |-> IF i = 2 THEN [path |-> "src/a.ts", from |-> 0, to |-> 12]
                        ELSE Null]] : q \in raw}

\* the record the host returns for a created comment
CreatedComments == {[id |-> 501]}

\* a parsed JSON document written by the child; cost_usd -1 is "undefined"
JsonDoc(resultValue) ==
    [result |-> resultValue, usage |-> Null, input_tokens |-> 0,
     output_tokens |-> 0, cost_usd |-> -1]

\* stdout of the child: the raw text, and what JSON.parse makes of it
\* (Null when JSON.parse throws)
Stdouts ==
    { [raw |-> "", json |-> Null],
      [raw |-> "{\"result\":\"LGTM\"}\n",
       json |-> JsonDoc([type |-> "string", value |-> "LGTM"])],
      [raw |-> "{\"result\":\"\"}\n",
       json |-> JsonDoc([type |-> "string", value |-> ""])] }

Stderrs == {"", "boom"}
ExitCodes == {0, 1}
SpawnErrors == {"spawn claude ENOENT"}

\* the words direct calls of extractRequest / classifyRequest are built from
TextWords ==
    {"@claude", "@CLAUDE", " ", "fix", "prefix", "why", "?", "please",
     "padding", "\n", "hello", " explain the "}

Texts == ConcatsUpTo(TextWords, MaxWords)

TriggerPhrases == {"@claude", "@Claude"}

(***************************************************************************)
(* prompts: the templates ("->" stands for the arrow character).           *)
(***************************************************************************)
NumOr(n, dflt) == IF n # 0 THEN ToString(n) ELSE dflt

ContextInfo(inlineContext) ==
    IF inlineContext # Null
    THEN "\n## Inline Comment Context\nThe user commented on file: **"
         \o inlineContext.path \o "**\nLines: "
         \o NumOr(inlineContext.from, "start") \o " - "
         \o NumOr(inlineContext.to, "end") \o "\n"
    ELSE ""

buildActionablePrompt(params) ==
    "\n# Pull Request Task\n\n**PR #" \o ToString(params.prId)
    \o "**\n**Branch:** " \o params.sourceBranch \o " -> " \o params.destBranch
    \o "\n" \o ContextInfo(params.inlineContext)
    \o "\n\n## User Request\n" \o params.request
    \o "\n\n## Instructions\nThe user has requested a code change. You should:\n\n"
    \o "1. Read the relevant files to understand the context\n"
    \o "2. Make the requested changes using Edit or Write tools\n"
    \o "3. If you make changes, explain what you did\n\n"
    \o "Be concise in your response. Focus on completing the task.\n"

buildInformationalPrompt(params) ==
    "\n# Pull Request Question\n\n**PR #" \o ToString(params.prId)
    \o "**\n**Branch:** " \o params.sourceBranch \o " -> " \o params.destBranch
    \o "\n" \o ContextInfo(params.inlineContext)
    \o "\n\n## User Question\n" \o params.request
    \o "\n\n## Instructions\nThe user is asking a question. "
    \o "Provide a helpful, concise answer.\n\n"
    \o "- Read relevant files if needed to understand context\n"
    \o "- Do NOT make any code changes\n"
    \o "- Be direct and helpful\n"

buildTagPrompt(params, actionable) ==
    IF actionable THEN buildActionablePrompt(params)
    ELSE buildInformationalPrompt(params)

\* the code fence around the diff ("~~~" stands for three backquotes)
DiffFenceOpen == "~~~diff\n"
DiffFenceClose == "\n~~~"

buildReviewPrompt(params) ==
    "Review this PR. Be concise - bullet points only.\n\n**" \o params.title
    \o "** (" \o params.sourceBranch \o " -> " \o params.destBranch \o ")"
    \o "\n\nCheck for: bugs, security issues, logic errors. Skip style nits."
    \o "\n\nFormat: Critical | Important | Minor\n- File:line - Issue - Fix"
    \o "\n\nIf code is good, just say \"LGTM\".\n\n"
    \o DiffFenceOpen \o substring2(params.diff, 0, MAX_DIFF_SIZE) \o DiffFenceClose

formatReviewComment(output) ==
    "## Claude Code Review\n\n" \o output \o "\n\n---\n*Automated review by Claude*"

(***************************************************************************)
(* claude runner: argument list, output parsing, the two child handlers.   *)
(***************************************************************************)
RECURSIVE joinWith(_, _)
joinWith(list, sep) ==
    IF list = <<>> THEN ""
    ELSE IF Len(list) = 1 THEN list[1]
    ELSE list[1] \o sep \o joinWith(Tail(list), sep)

ClaudeArgs(cfg, options) ==
    <<"-p", "--output-format", "json", "--model", cfg.model,
      "--max-turns", ToString(cfg.maxTurns)>>
    \o (IF Len(options.allowedTools) > 0
        THEN <<"--allowed-tools", joinWith(options.allowedTools, ",")>> ELSE <<>>)
    \o (IF Len(options.blockedTools) > 0
        THEN <<"--disallowed-tools", joinWith(options.blockedTools, ",")>> ELSE <<>>)

\* the state runClaude leaves behind when it has spawned the child
SpawnClaude(cfg, prompt, options) ==
    [prompt |-> prompt, allowedTools |-> options.allowedTools,
     blockedTools |-> options.blockedTools, args |-> ClaudeArgs(cfg, options)]

\* the JavaScript value null, as JSON.parse returns it for the text null
JsNull == [jsnull |-> TRUE]

\* a variant that returns no text when the output is not a JSON document
parseClaudeJsonOutput_emptyOnFailure(stdout) ==
    [text |-> "", usage |-> Null]

\* stdout.json is Null when JSON.parse throws; reading json.result of the
\* value null throws as well, inside the same try block
parseClaudeJsonOutput(stdout) ==
    IF stdout.json = Null \/ stdout.json = JsNull
    THEN [text |-> trim(stdout.raw), usage |-> Null]
    ELSE LET json == stdout.json
             text == IF json.result.type = "string" THEN json.result.value
                     ELSE IF json.result.type = "object" THEN json.result.text
                     ELSE ""
             nested(f) == IF json.usage # Null THEN json.usage[f] ELSE 0
             inTok == IF nested("input_tokens") # 0 THEN nested("input_tokens")
                      ELSE json.input_tokens
             outTok == IF nested("output_tokens") # 0 THEN nested("output_tokens")
                       ELSE json.output_tokens
         IN [text |-> text,
             usage |-> IF json.usage # Null \/ json.cost_usd # -1
                       THEN [inputTokens |-> inTok, outputTokens |-> outTok,
                             totalTokens |-> inTok + outTok, costUsd |-> json.cost_usd]
                       ELSE Null]

\* child.on("close")
CloseResult(code, stdout, stderr) ==
    IF code = 0
    THEN LET parsed == parseClaudeJsonOutput(stdout)
         IN [success |-> TRUE, output |-> parsed.text, error |-> "",
             usage |-> parsed.usage]
    ELSE [success |-> FALSE, output |-> trim(stdout.raw),
          error |-> IF stderr # "" THEN stderr ELSE "Exit code: " \o ToString(code),
          usage |-> Null]

\* child.on("error")
ErrorResult(message) ==
    [success |-> FALSE, output |-> "", error |-> message, usage |-> Null]

(***************************************************************************)
(* config: validation.                                                     *)
(***************************************************************************)
validateConfig(cfg) ==
    (IF cfg.workspace = "" THEN <<"BITBUCKET_WORKSPACE is required">> ELSE <<>>)
    \o (IF cfg.repoSlug = "" THEN <<"BITBUCKET_REPO_SLUG is required">> ELSE <<>>)
    \o (IF cfg.anthropicApiKey = "" THEN <<"ANTHROPIC_API_KEY is required">> ELSE <<>>)
    \o (IF cfg.bitbucketToken = ""
        THEN <<"[WARN] BITBUCKET_ACCESS_TOKEN not set - cannot post comments to PR">>
        ELSE <<>>)

shouldRunReview(cfg) == IF cfg.prId = 0 THEN FALSE ELSE cfg.mode = "review"

shouldRunTag(cfg) == IF cfg.prId = 0 THEN FALSE ELSE cfg.mode = "tag"

\* process.env of the run: the optional pipeline variables are unset
Env == [BITBUCKET_BRANCH |-> "", BITBUCKET_PR_TITLE |-> ""]

Or(a, b) == IF a # "" THEN a ELSE b

(***************************************************************************)
(* modes/tag.ts: selection of the trigger comment.                         *)
(***************************************************************************)
\* [...comments].sort((a, b) => b.created_on - a.created_on): a stable sort,
\* latest first; the result is the permutation of positions
RECURSIVE InsertByDateDesc(_, _)
InsertByDateDesc(sorted, c) ==
    IF sorted = <<>> THEN <<c>>
    ELSE IF c.created_on > Head(sorted).created_on THEN <<c>> \o sorted
    ELSE <<Head(sorted)>> \o InsertByDateDesc(Tail(sorted), c)

RECURSIVE SortByDateDesc(_)
SortByDateDesc(cs) ==
    IF cs = <<>> THEN <<>>
    ELSE InsertByDateDesc(SortByDateDesc(SubSeq(cs, 1, Len(cs) - 1)), cs[Len(cs)])

ContainsTrigger(comment, triggerPhrase) ==
    includes(toLowerCase(comment.content.raw), toLowerCase(triggerPhrase))

findTriggerComment_unsorted(cs, triggerPhrase) ==
    LET Triggered(c) == ContainsTrigger(c, triggerPhrase)
        triggered == SelectSeq(cs, Triggered)
    IN IF Len(triggered) = 0 THEN Null ELSE triggered[1]

findTriggerComment(cs, triggerPhrase) ==
    LET sorted == SortByDateDesc(cs)
        Triggered(c) == ContainsTrigger(c, triggerPhrase)
        triggered == SelectSeq(sorted, Triggered)
    IN IF Len(triggered) = 0 THEN Null ELSE triggered[1]

(***************************************************************************)
(* The state machine.                                                      *)
(***************************************************************************)
NoChild == [state |-> "none"]
NoUnit == [fn |-> "none"]
Pending == [pending |-> TRUE]

Init ==
    /\ entry \in {"main", "runReviewMode", "runTagMode"}
    /\ config \in CASE entry = "main" -> MainConfigs
                    [] entry = "runReviewMode" -> DirectConfigs("review")
                    [] entry = "runTagMode" -> DirectConfigs("tag")
    /\ pc = CASE entry = "main" -> "main_ensure_cli"
              [] entry = "runReviewMode" -> "review_start"
              [] entry = "runTagMode" -> "tag_start"
    /\ pr = Null
    /\ diff = ""
    /\ comments = <<>>
    /\ triggerComment = Null
    /\ userRequest = ""
    /\ isActionable = FALSE
    /\ invocation = Null
    /\ child = NoChild
    /\ result = Null
    /\ calls = <<>>
    /\ modeResult = Null
    /\ exitCode = -1
    /\ unit = NoUnit

modeVars == <<pr, diff, comments, triggerComment, userRequest, isActionable>>
runnerVars == <<invocation, child, result>>

\* process.exit(code)
Exit(code) == pc' = "exited" /\ exitCode' = code

\* a variant in which the promise of a mode body is never settled
Return_never(r) ==
    /\ modeResult' = modeResult
    /\ pc' = "pending"

\* a mode body returns r to its caller
Return(r) ==
    /\ modeResult' = r
    /\ pc' = IF entry = "main" THEN "main_after_mode" ELSE "done"

\* a variant in which a call that failed is made again
Respond_retry(response) ==
    calls' = IF response = Null
             THEN Append([calls EXCEPT ![Len(calls)].response = response],
                         [calls[Len(calls)] EXCEPT !.response = response])
             ELSE [calls EXCEPT ![Len(calls)].response = response]

\* the last call on the host client gets its response
Respond(response) ==
    calls' = [calls EXCEPT ![Len(calls)].response = response]

(***************************************************************************)
(* main                                                                    *)
(***************************************************************************)
MainEnsureCLI ==
    /\ pc = "main_ensure_cli"
    /\ \E claudeReady \in BOOLEAN :
          IF ~claudeReady THEN Exit(1)
          ELSE pc' = "main_validate" /\ UNCHANGED exitCode
    /\ UNCHANGED <<entry, config, modeVars, runnerVars, calls, modeResult, unit>>

MainValidateConfig ==
    /\ pc = "main_validate"
    /\ LET errors == validateConfig(config)
       IN IF Len(errors) > 0 THEN Exit(1)
          ELSE pc' = "main_dispatch" /\ UNCHANGED exitCode
    /\ UNCHANGED <<entry, config, modeVars, runnerVars, calls, modeResult, unit>>

MainDispatch ==
    /\ pc = "main_dispatch"
    /\ IF config.mode = "review"
       THEN IF ~shouldRunReview(config) THEN Exit(0)
            ELSE pc' = "review_start" /\ UNCHANGED exitCode
       ELSE IF config.mode = "tag"
       THEN IF ~shouldRunTag(config) THEN Exit(0)
            ELSE pc' = "tag_start" /\ UNCHANGED exitCode
       ELSE Exit(1)
    /\ UNCHANGED <<entry, config, modeVars, runnerVars, calls, modeResult, unit>>

MainAfterMode ==
    /\ pc = "main_after_mode"
    /\ IF ~modeResult.success THEN Exit(1) ELSE Exit(0)
    /\ UNCHANGED <<entry, config, modeVars, runnerVars, calls, modeResult, unit>>

(***************************************************************************)
(* the child process of runClaude                                          *)
(***************************************************************************)
ChildClose ==
    /\ child.state = "running"
    /\ \E code \in ExitCodes, stdout \in Stdouts, stderr \in Stderrs :
          /\ child' = [state |-> "closed", code |-> code, stdout |-> stdout,
                       stderr |-> stderr]
          /\ result' = IF result = Null THEN CloseResult(code, stdout, stderr)
                       ELSE result
    /\ UNCHANGED <<entry, config, pc, modeVars, invocation, calls, modeResult,
                   exitCode, unit>>

ChildError ==
    /\ child.state = "running"
    /\ \E message \in SpawnErrors :
          /\ child' = [state |-> "failed", message |-> message]
          /\ result' = IF result = Null THEN ErrorResult(message) ELSE result
    /\ UNCHANGED <<entry, config, pc, modeVars, invocation, calls, modeResult,
                   exitCode, unit>>

(***************************************************************************)
(* modes/review.ts: runReviewMode                                          *)
(***************************************************************************)
ReviewToolConfig_fullAccess == TOOL_CONFIGS.fullAccess

\* the tool policy runReviewMode hands to runClaude
ReviewToolConfig == TOOL_CONFIGS.readOnly

ShouldPost_ignoreToken(res, cfg) == res.output # ""

\* if (result.output && config.bitbucketToken)
ShouldPost(res, cfg) == res.output # "" /\ cfg.bitbucketToken # ""

\* a variant in which a failed post fails the run
ReviewPostedResult_failure(posted) ==
    IF posted # Null
    THEN [success |-> TRUE, reviewPosted |-> TRUE, error |-> ""]
    ELSE [success |-> FALSE, reviewPosted |-> FALSE, error |-> "Failed to post comment"]

\* the result after the postComment call resolved
ReviewPostedResult(posted) ==
    IF posted # Null
    THEN [success |-> TRUE, reviewPosted |-> TRUE, error |-> ""]
    ELSE [success |-> TRUE, reviewPosted |-> FALSE, error |-> "Failed to post comment"]

ReviewStart ==
    /\ pc = "review_start"
    /\ IF config.prId = 0
       THEN /\ Return([success |-> FALSE, reviewPosted |-> FALSE, error |-> "No PR ID"])
            /\ UNCHANGED calls
       ELSE IF config.bitbucketToken # ""
       THEN /\ calls' = Append(calls, [op |-> "getPullRequest", prId |-> config.prId,
                                       response |-> Pending])
            /\ pc' = "review_await_pr"
            /\ UNCHANGED modeResult
       ELSE /\ pc' = "review_diff"
            /\ UNCHANGED <<calls, modeResult>>
    /\ UNCHANGED <<entry, config, modeVars, runnerVars, exitCode, unit>>

ReviewGotPR ==
    /\ pc = "review_await_pr"
    /\ \E p \in PullRequests \cup {Null} :
          /\ pr' = p
          /\ Respond(p)
    /\ pc' = "review_diff"
    /\ UNCHANGED <<entry, config, diff, comments, triggerComment, userRequest,
                   isActionable, runnerVars, modeResult, exitCode, unit>>

\* getChangedFiles / getLocalDiff, buildReviewPrompt and the runClaude call
ReviewDiffAndInvoke ==
    /\ pc = "review_diff"
    /\ \E d \in Diffs :
          /\ diff' = d
          /\ IF d = ""
             THEN /\ Return([success |-> TRUE, reviewPosted |-> FALSE,
                             error |-> "No diff"])
                  /\ UNCHANGED <<invocation, child>>
             ELSE LET title == IF pr # Null THEN Or(pr.title, Or(Env.BITBUCKET_PR_TITLE, "PR"))
                               ELSE Or(Env.BITBUCKET_PR_TITLE, "PR")
                      sourceBranch == IF pr # Null THEN Or(pr.source, Env.BITBUCKET_BRANCH)
                                      ELSE Env.BITBUCKET_BRANCH
                      destBranch == IF pr # Null THEN Or(pr.destination, config.destinationBranch)
                                    ELSE config.destinationBranch
                      prompt == buildReviewPrompt([title |-> title,
                                    sourceBranch |-> sourceBranch,
                                    destBranch |-> destBranch, diff |-> d])
                  IN /\ invocation' = SpawnClaude(config, prompt, ReviewToolConfig)
                     /\ child' = [state |-> "running"]
                     /\ pc' = "review_await_claude"
                     /\ UNCHANGED modeResult
    /\ UNCHANGED <<entry, config, pr, comments, triggerComment, userRequest,
                   isActionable, result, calls, exitCode, unit>>

ReviewAfterClaude ==
    /\ pc = "review_await_claude"
    /\ result # Null
    /\ IF ~result.success
       THEN /\ Return([success |-> FALSE, reviewPosted |-> FALSE,
                       error |-> result.error])
            /\ UNCHANGED calls
       ELSE IF ShouldPost(result, config)
       THEN /\ calls' = Append(calls, [op |-> "postComment", prId |-> config.prId,
                                       content |-> formatReviewComment(result.output),
                                       response |-> Pending])
            /\ pc' = "review_await_post"
            /\ UNCHANGED modeResult
       ELSE /\ Return([success |-> TRUE, reviewPosted |-> FALSE, error |-> ""])
            /\ UNCHANGED calls
    /\ UNCHANGED <<entry, config, modeVars, runnerVars, exitCode, unit>>

ReviewPosted ==
    /\ pc = "review_await_post"
    /\ \E posted \in CreatedComments \cup {Null} :
          /\ Respond(posted)
          /\ Return(ReviewPostedResult(posted))
    /\ UNCHANGED <<entry, config, modeVars, runnerVars, exitCode, unit>>

(***************************************************************************)
(* modes/tag.ts: runTagMode                                                *)
(***************************************************************************)
TagToolConfig_alwaysFull(actionable) == TOOL_CONFIGS.fullAccess

\* isActionable ? TOOL_CONFIGS.fullAccess : TOOL_CONFIGS.readOnly
TagToolConfig(actionable) ==
    IF actionable THEN TOOL_CONFIGS.fullAccess ELSE TOOL_CONFIGS.readOnly

\* if (result.output && config.bitbucketToken)
ShouldReply(res, cfg) == res.output # "" /\ cfg.bitbucketToken # ""

ErrorReplyText(error) == "Sorry, I encountered an error: " \o error

TagFailureResult_responded(res) ==
    [success |-> FALSE, responded |-> TRUE, error |-> res.error, commentId |-> 0]

\* return { success: false, responded: false, error: result.error }
TagFailureResult(res) ==
    [success |-> FALSE, responded |-> FALSE, error |-> res.error, commentId |-> 0]

TagRepliedResult_parentId(reply, parent) ==
    IF reply # Null
    THEN [success |-> TRUE, responded |-> TRUE, error |-> "", commentId |-> parent.id]
    ELSE [success |-> TRUE, responded |-> FALSE, error |-> "", commentId |-> 0]

\* the result after the reply call resolved (commentId 0 is "absent")
TagRepliedResult(reply, parent) ==
    IF reply # Null
    THEN [success |-> TRUE, responded |-> TRUE, error |-> "", commentId |-> reply.id]
    ELSE [success |-> TRUE, responded |-> FALSE, error |-> "", commentId |-> 0]

TagNothingToDo == [success |-> TRUE, responded |-> FALSE, error |-> "", commentId |-> 0]

TagStart ==
    /\ pc = "tag_start"
    /\ IF config.prId = 0
       THEN /\ Return([success |-> FALSE, responded |-> FALSE, error |-> "No PR ID",
                       commentId |-> 0])
            /\ UNCHANGED calls
       ELSE /\ calls' = Append(calls, [op |-> "getComments", prId |-> config.prId,
                                       response |-> Pending])
            /\ pc' = "tag_await_comments"
            /\ UNCHANGED modeResult
    /\ UNCHANGED <<entry, config, modeVars, runnerVars, exitCode, unit>>

\* from the resolution of getComments to the runClaude call
TagGotComments ==
    /\ pc = "tag_await_comments"
    /\ \E cs \in CommentLists :
          /\ comments' = cs
          /\ Respond([values |-> cs])
          /\ IF Len(cs) = 0
             THEN /\ Return(TagNothingToDo)
                  /\ UNCHANGED <<triggerComment, userRequest, isActionable, invocation, child>>
             ELSE LET found == findTriggerComment(cs, config.triggerPhrase)
                  IN IF found = Null
                     THEN /\ Return(TagNothingToDo)
                          /\ UNCHANGED <<triggerComment, userRequest, isActionable,
                                         invocation, child>>
                     ELSE LET request == extractRequest(found.content.raw, config.triggerPhrase)
                          IN /\ triggerComment' = found
                             /\ userRequest' = request
                             /\ IF request = ""
                                THEN /\ Return(TagNothingToDo)
                                     /\ UNCHANGED <<isActionable, invocation, child>>
                                ELSE LET actionable == classifyRequest(request)
                                         prompt == buildTagPrompt(
                                             [prId |-> config.prId,
                                              sourceBranch |-> Or(Env.BITBUCKET_BRANCH, "unknown"),
                                              destBranch |-> config.destinationBranch,
                                              request |-> request,
                                              inlineContext |-> found.inline],
                                             actionable)
                                     IN /\ isActionable' = actionable
                                        /\ invocation' = SpawnClaude(config, prompt,
                                                             TagToolConfig(actionable))
                                        /\ child' = [state |-> "running"]
                                        /\ pc' = "tag_await_claude"
                                        /\ UNCHANGED modeResult
    /\ UNCHANGED <<entry, config, pr, diff, result, exitCode, unit>>

TagAfterClaude ==
    /\ pc = "tag_await_claude"
    /\ result # Null
    /\ IF ~result.success
       THEN IF config.bitbucketToken # ""
            THEN /\ calls' = Append(calls, [op |-> "replyToComment",
                                 prId |-> config.prId, parentId |-> triggerComment.id,
                                 content |-> ErrorReplyText(result.error),
                                 response |-> Pending])
                 /\ pc' = "tag_await_error_reply"
                 /\ UNCHANGED modeResult
            ELSE /\ Return(TagFailureResult(result))
                 /\ UNCHANGED calls
       ELSE IF ShouldReply(result, config)
       THEN /\ calls' = Append(calls, [op |-> "replyToComment",
                            prId |-> config.prId, parentId |-> triggerComment.id,
                            content |-> result.output, response |-> Pending])
            /\ pc' = "tag_await_reply"
            /\ UNCHANGED modeResult
       ELSE /\ Return(TagNothingToDo)
            /\ UNCHANGED calls
    /\ UNCHANGED <<entry, config, modeVars, runnerVars, exitCode, unit>>

TagErrorReplied ==
    /\ pc = "tag_await_error_reply"
    /\ \E reply \in CreatedComments \cup {Null} :
          /\ Respond(reply)
          /\ Return(TagFailureResult(result))
    /\ UNCHANGED <<entry, config, modeVars, runnerVars, exitCode, unit>>

TagReplied ==
    /\ pc = "tag_await_reply"
    /\ \E reply \in CreatedComments \cup {Null} :
          /\ Respond(reply)
          /\ Return(TagRepliedResult(reply, triggerComment))
    /\ UNCHANGED <<entry, config, modeVars, runnerVars, exitCode, unit>>

Next ==
    \/ MainEnsureCLI
    \/ MainValidateConfig
    \/ MainDispatch
    \/ MainAfterMode
    \/ ReviewStart
    \/ ReviewGotPR
    \/ ReviewDiffAndInvoke
    \/ ReviewAfterClaude
    \/ ReviewPosted
    \/ TagStart
    \/ TagGotComments
    \/ TagAfterClaude
    \/ TagErrorReplied
    \/ TagReplied
    \/ ChildClose
    \/ ChildError

Spec == Init /\ [][Next]_vars

(***************************************************************************)
(* The same machine under the provisos of termination: a step of main or   *)
(* of a mode body that can be taken is taken (every awaited call of the    *)
(* host client or of git returns), and a spawned child eventually emits    *)
(* close or error.                                                         *)
(***************************************************************************)
ModeSteps ==
    \/ MainEnsureCLI \/ MainValidateConfig \/ MainDispatch \/ MainAfterMode
    \/ ReviewStart \/ ReviewGotPR \/ ReviewDiffAndInvoke \/ ReviewAfterClaude
    \/ ReviewPosted
    \/ TagStart \/ TagGotComments \/ TagAfterClaude \/ TagErrorReplied \/ TagReplied

ChildExits == ChildClose \/ ChildError

SpecLive == Init /\ [][Next]_vars /\ WF_vars(ModeSteps) /\ WF_vars(ChildExits)

(***************************************************************************)
(* Direct calls of the exported request helpers (as the unit tests make    *)
(* them): the inputs are drawn in the initial state, a call records what   *)
(* the function returned.                                                  *)
(***************************************************************************)
InitText ==
    /\ entry = "unit"
    /\ config = Null
    /\ pc = "unit"
    /\ pr = Null
    /\ diff = ""
    /\ comments = <<>>
    /\ triggerComment = Null
    /\ userRequest = ""
    /\ isActionable = FALSE
    /\ invocation = Null
    /\ child = NoChild
    /\ result = Null
    /\ calls = <<>>
    /\ modeResult = Null
    /\ exitCode = -1
    /\ \E text \in Texts, trigger \in TriggerPhrases :
          unit = [fn |-> "input", text |-> text, triggerPhrase |-> trigger]

CallExtractRequest ==
    /\ unit.fn = "input"
    /\ unit' = [fn |-> "extractRequest", text |-> unit.text,
                triggerPhrase |-> unit.triggerPhrase,
                returned |-> extractRequest(unit.text, unit.triggerPhrase)]
    /\ UNCHANGED <<entry, config, pc, modeVars, runnerVars, calls, modeResult, exitCode>>

CallClassifyRequest ==
    /\ unit.fn = "input"
    /\ unit' = [fn |-> "classifyRequest", text |-> unit.text,
                triggerPhrase |-> unit.triggerPhrase,
                returned |-> classifyRequest(unit.text)]
    /\ UNCHANGED <<entry, config, pc, modeVars, runnerVars, calls, modeResult, exitCode>>

NextText ==
    \/ CallExtractRequest
    \/ CallClassifyRequest

SpecText == InitText /\ [][NextText]_vars

(***************************************************************************)
(* Direct calls of the exported glob helpers of project-config.ts (as the  *)
(* unit tests make them).                                                  *)
(***************************************************************************)
\* the characters paths and patterns are built from
PathChars == {"a", "/", "\\", "\n"}
PatternChars == {"a", "/", ".", "*", "?", "\\"}

\* the pairs of config.test.ts and of the documentation
GlobExamples ==
    { <<"src/file.ts", "**/*.ts">>, <<"src/file.ts", "*.ts">>,
      <<"file.ts", "*.ts">>, <<"package-lock.json", "*.lock">>,
      <<"composer.lock", "*.lock">>, <<"src/nested/file.ts", "src/**">>,
      <<"file.ts", "**/*.ts">> }

GlobPairs ==
    GlobExamples \cup (ConcatsUpTo(PathChars, MaxPathLen)
                       \X ConcatsUpTo(PatternChars, MaxPatternLen))

FilePaths ==
    {"src/file.ts", "src/generated/types.ts", "src/types.generated.ts",
     "vendor/file.php", "composer.lock", "tests/file.ts", "types.generated.ts"}

\* include / exclude lists of a project configuration; <<>> is absent or empty
PatternLists ==
    { <<>>, <<"src/**">>, <<"src/**", "config/**">>, <<"vendor/**", "*.lock">>,
      <<"src/generated/**">>, <<"**/*.generated.ts">> }

InitGlob ==
    /\ entry = "unit"
    /\ config = Null
    /\ pc = "unit"
    /\ pr = Null
    /\ diff = ""
    /\ comments = <<>>
    /\ triggerComment = Null
    /\ userRequest = ""
    /\ isActionable = FALSE
    /\ invocation = Null
    /\ child = NoChild
    /\ result = Null
    /\ calls = <<>>
    /\ modeResult = Null
    /\ exitCode = -1
    /\ \/ \E pair \in GlobPairs :
             unit = [fn |-> "input", of |-> "matchesPattern", path |-> pair[1],
                     pattern |-> pair[2], include |-> <<>>, exclude |-> <<>>]
       \/ \E path \in FilePaths, include \in PatternLists, exclude \in PatternLists :
             unit = [fn |-> "input", of |-> "shouldIncludeFile", path |-> path,
                     pattern |-> "", include |-> include, exclude |-> exclude]

CallMatchesPattern ==
    /\ unit.fn = "input" /\ unit.of = "matchesPattern"
    /\ unit' = [unit EXCEPT !.fn = "matchesPattern"]
                 @@ [returned |-> matchesPattern(unit.path, unit.pattern)]
    /\ UNCHANGED <<entry, config, pc, modeVars, runnerVars, calls, modeResult, exitCode>>

CallShouldIncludeFile ==
    /\ unit.fn = "input" /\ unit.of = "shouldIncludeFile"
    /\ unit' = [unit EXCEPT !.fn = "shouldIncludeFile"]
                 @@ [returned |-> shouldIncludeFile(unit.path, unit.include,
                                                    unit.exclude)]
    /\ UNCHANGED <<entry, config, pc, modeVars, runnerVars, calls, modeResult, exitCode>>

NextGlob ==
    \/ CallMatchesPattern
    \/ CallShouldIncludeFile

SpecGlob == InitGlob /\ [][NextGlob]_vars

(***************************************************************************)
(* Direct calls of filterDiffByPatterns and filterFilesByPatterns.         *)
(***************************************************************************)
\* text before the first header, a whitespace-only text, a header that is
\* not one, and a file whose content line quotes a header
DiffParts ==
    FileChunks \cup
    { "index on main\n",
      "\n",
      "diff --git broken\n+q\n",
      "diff --git a/src/d.ts b/src/d.ts\n+see diff --git a/vendor/x b/vendor/x\n+more\n" }

DiffTexts == ConcatsUpTo(DiffParts, MaxChunks)

FileLists == SeqsUpTo({"src/file.ts", "vendor/file.php", "composer.lock"}, MaxChunks)

DiffPatternLists == { <<>>, <<"src/**">>, <<"vendor/**", "*.lock">> }

InitDiff ==
    /\ entry = "unit"
    /\ config = Null
    /\ pc = "unit"
    /\ pr = Null
    /\ diff = ""
    /\ comments = <<>>
    /\ triggerComment = Null
    /\ userRequest = ""
    /\ isActionable = FALSE
    /\ invocation = Null
    /\ child = NoChild
    /\ result = Null
    /\ calls = <<>>
    /\ modeResult = Null
    /\ exitCode = -1
    /\ \E include \in DiffPatternLists, exclude \in DiffPatternLists :
          \/ \E d \in DiffTexts :
                unit = [fn |-> "input", of |-> "filterDiffByPatterns", diff |-> d,
                        files |-> <<>>, include |-> include, exclude |-> exclude]
          \/ \E files \in FileLists :
                unit = [fn |-> "input", of |-> "filterFilesByPatterns", diff |-> "",
                        files |-> files, include |-> include, exclude |-> exclude]

CallFilterDiffByPatterns ==
    /\ unit.fn = "input" /\ unit.of = "filterDiffByPatterns"
    /\ unit' = [unit EXCEPT !.fn = "filterDiffByPatterns"]
               @@ [returned |-> filterDiffByPatterns(unit.diff, unit.include, unit.exclude)]
    /\ UNCHANGED <<entry, config, pc, modeVars, runnerVars, calls, modeResult, exitCode>>

CallFilterFilesByPatterns ==
    /\ unit.fn = "input" /\ unit.of = "filterFilesByPatterns"
    /\ unit' = [unit EXCEPT !.fn = "filterFilesByPatterns"]
               @@ [returned |-> filterFilesByPatterns(unit.files, unit.include, unit.exclude)]
    /\ UNCHANGED <<entry, config, pc, modeVars, runnerVars, calls, modeResult, exitCode>>

NextDiff ==
    \/ CallFilterDiffByPatterns
    \/ CallFilterFilesByPatterns

SpecDiff == InitDiff /\ [][NextDiff]_vars

(***************************************************************************)
(* Direct calls of mergeToolConfig (as the unit tests make them).          *)
(***************************************************************************)
ToolNames == {"Read", "Bash", "Write"}

\* a list of a project's tool override; <<>> is an absent or empty list
ToolLists == SeqsUpTo(ToolNames, MaxTools)

\* the optional ToolConfig of a project: Null when none is given
ToolOverrides ==
    {Null} \cup {[allowed |-> a, blocked |-> b] : a \in ToolLists, b \in ToolLists}

InitTools ==
    /\ entry = "unit"
    /\ config = Null
    /\ pc = "unit"
    /\ pr = Null
    /\ diff = ""
    /\ comments = <<>>
    /\ triggerComment = Null
    /\ userRequest = ""
    /\ isActionable = FALSE
    /\ invocation = Null
    /\ child = NoChild
    /\ result = Null
    /\ calls = <<>>
    /\ modeResult = Null
    /\ exitCode = -1
    /\ \E name \in {"readOnly", "fullAccess"}, override \in ToolOverrides :
          unit = [fn |-> "input", defaultConfig |-> TOOL_CONFIGS[name],
                  projectConfig |-> override]

CallMergeToolConfig ==
    /\ unit.fn = "input"
    /\ unit' = [fn |-> "mergeToolConfig", defaultConfig |-> unit.defaultConfig,
                projectConfig |-> unit.projectConfig,
                returned |-> mergeToolConfig(unit.defaultConfig, unit.projectConfig)]
    /\ UNCHANGED <<entry, config, pc, modeVars, runnerVars, calls, modeResult, exitCode>>

NextTools ==
    \/ CallMergeToolConfig

SpecTools == InitTools /\ [][NextTools]_vars

(***************************************************************************)
(* index.ts: the two runners seen from their child-process handlers.       *)
(*                                                                         *)
(* The child writes bytes.  A byte is a one-character string: an ASCII     *)
(* byte is its character, LeadByte and ContByte are the two bytes (0xC3,   *)
(* 0xA9) of the UTF-8 encoding of one non-ASCII character.  In decoded     *)
(* text that character is written EAcute and U+FFFD is written             *)
(* ReplacementChar.  A data handler receives a Buffer and decodes it on    *)
(* its own with chunk.toString().                                          *)
(***************************************************************************)
LeadByte == "^"
ContByte == "~"
EAcute == "%"
ReplacementChar == "#"

\* Buffer.prototype.toString(): UTF-8 decoding of one chunk; a byte that is
\* not part of a complete sequence inside the chunk decodes to U+FFFD
RECURSIVE BufferToString(_)
BufferToString(chunk) ==
    LET multi == {i \in 1..Len(chunk) : At(chunk, i) \in {LeadByte, ContByte}}
    IN IF multi = {} THEN chunk
       ELSE LET i == CHOOSE k \in multi : \A j \in multi : k <= j
                complete == /\ At(chunk, i) = LeadByte
                            /\ i < Len(chunk)
                            /\ At(chunk, i + 1) = ContByte
            IN SubSeq(chunk, 1, i - 1)
               \o (IF complete THEN EAcute ELSE ReplacementChar)
               \o BufferToString(SubSeq(chunk, IF complete THEN i + 2 ELSE i + 1,
                                        Len(chunk)))

\* String.prototype.split("\n")
RECURSIVE SplitLines(_)
SplitLines(s) ==
    LET nl == indexOf(s, "\n")
    IN IF nl = -1 THEN <<s>>
       ELSE <<substring2(s, 0, nl)>> \o SplitLines(substring(s, nl + 1))

\* the event lines claude writes in stream-json format
AssistantLine(text) ==
    "{\"type\":\"assistant\",\"message\":{\"content\":[{\"type\":\"text\",\"text\":\""
    \o text \o "\"}]}}"

ResultLine(text) == "{\"type\":\"result\",\"result\":\"" \o text \o "\"}"

SystemLine == "{\"type\":\"system\"}"

\* characters a JSON string may not hold unescaped
JsonStringBreakers == {"\"", "\\", "\n", "\r", "\t"}

IsPlainJsonText(t) == \A i \in 1..Len(t) : At(t, i) \notin JsonStringBreakers

\* the text between prefix and suffix of s, when s has that shape
Between(s, prefix, suffix) ==
    substring2(s, Len(prefix), Len(s) - Len(suffix))

HasShape(s, prefix, suffix) ==
    /\ Len(s) >= Len(prefix) + Len(suffix)
    /\ SubSeq(s, 1, Len(prefix)) = prefix
    /\ SubSeq(s, Len(s) - Len(suffix) + 1, Len(s)) = suffix
    /\ IsPlainJsonText(Between(s, prefix, suffix))

\* JSON.parse(line) for the event shapes above (white space around the
\* document is allowed); Null when JSON.parse throws, as it does for every
\* proper fragment of an event line
ParseEvent(line) ==
    LET doc == trim(line)
        aPre == AssistantLine("")
        rPre == ResultLine("")
        aPrefix == SubSeq(aPre, 1, Len(aPre) - 5)
        rPrefix == SubSeq(rPre, 1, Len(rPre) - 2)
    IN IF HasShape(doc, aPrefix, "\"}]}}")
       THEN [type |-> "assistant",
             message |-> [content |-> <<[type |-> "text",
                                         text |-> Between(doc, aPrefix, "\"}]}}")]>>]]
       ELSE IF HasShape(doc, rPrefix, "\"}")
       THEN [type |-> "result", result |-> Between(doc, rPrefix, "\"}")]
       ELSE IF doc = SystemLine THEN [type |-> "system"]
       ELSE Null

\* the text blocks of an assistant event, appended in order
RECURSIVE AppendBlocks(_, _)
AppendBlocks(finalOutput, content) ==
    IF content = <<>> THEN finalOutput
    ELSE AppendBlocks(
            IF content[1].type = "text" /\ content[1].text # ""
            THEN finalOutput \o content[1].text ELSE finalOutput,
            Tail(content))

\* a variant in which a result event always replaces the accumulated text
ProcessLine_resultOverrides(finalOutput, line) ==
    IF trim(line) = "" THEN finalOutput
    ELSE LET event == ParseEvent(line)
         IN IF event = Null THEN finalOutput
            ELSE IF event.type = "assistant"
            THEN AppendBlocks(finalOutput, event.message.content)
            ELSE IF event.type = "result" /\ event.result # ""
            THEN event.result
            ELSE finalOutput

\* the body of the for loop of the streaming data handler, for one line
ProcessLine(finalOutput, line) ==
    IF trim(line) = "" THEN finalOutput
    ELSE LET event == ParseEvent(line)
         IN IF event = Null THEN finalOutput
            ELSE IF event.type = "assistant"
            THEN AppendBlocks(finalOutput, event.message.content)
            ELSE IF event.type = "result" /\ event.result # ""
            THEN (IF finalOutput = "" THEN event.result ELSE finalOutput)
            ELSE finalOutput

RECURSIVE ProcessLines(_, _)
ProcessLines(finalOutput, lines) ==
    IF lines = <<>> THEN finalOutput
    ELSE ProcessLines(ProcessLine(finalOutput, lines[1]), Tail(lines))

\* child.stdout.on("data") of runClaudeStreaming
StreamingOnData(st, chunk) ==
    LET joined == st.buffer \o BufferToString(chunk)
        lines == SplitLines(joined)
    IN [buffer |-> lines[Len(lines)],
        finalOutput |-> ProcessLines(st.finalOutput,
                                     SubSeq(lines, 1, Len(lines) - 1))]

\* child.on("close") of runClaudeStreaming
StreamingCloseResult(code, finalOutput, stderr) ==
    [success |-> code = 0, output |-> trim(finalOutput),
     error |-> IF code # 0 THEN stderr ELSE "", usage |-> Null]

\* the documents claude writes in json format, with what JSON.parse makes
\* of them
JsonDocuments ==
    { [raw |-> "{\"result\":\"LGTM\",\"usage\":{\"input_tokens\":10,\"output_tokens\":5}}",
       json |-> [JsonDoc([type |-> "string", value |-> "LGTM"]) EXCEPT
                    !.usage = [input_tokens |-> 10, output_tokens |-> 5]]],
      [raw |-> "{\"result\":\"LGTM\",\"input_tokens\":10,\"output_tokens\":5}",
       json |-> [JsonDoc([type |-> "string", value |-> "LGTM"]) EXCEPT
                    !.input_tokens = 10, !.output_tokens = 5]],
      [raw |-> "{\"result\":\"LGTM\",\"cost_usd\":2}",
       json |-> [JsonDoc([type |-> "string", value |-> "LGTM"]) EXCEPT
                    !.cost_usd = 2]],
      [raw |-> "{\"result\":{\"text\":\"LGTM\"}}",
       json |-> JsonDoc([type |-> "object", text |-> "LGTM"])],
      [raw |-> "{\"result\":\"LGTM\"}",
       json |-> JsonDoc([type |-> "string", value |-> "LGTM"])],
      [raw |-> "{\"result\":\"\"}",
       json |-> JsonDoc([type |-> "string", value |-> ""])],
      [raw |-> "null", json |-> JsNull] }

\* JSON.parse(output.trim()): Null when it throws
JsonParse(output) ==
    LET doc == trim(output)
    IN IF \E d \in JsonDocuments : d.raw = doc
       THEN (CHOOSE d \in JsonDocuments : d.raw = doc).json
       ELSE Null

\* what the child of runClaude may write on stdout
DocumentStreams ==
    {d.raw \o "\n" : d \in JsonDocuments} \cup {"", "Error: not json\n", " LGTM {\n"}

\* what the child of runClaudeStreaming may write on stdout: up to MaxLines
\* lines, the last one with or without its newline
StreamLines ==
    {AssistantLine("Hi "), AssistantLine(LeadByte \o ContByte), ResultLine("Ok"),
     "warn"}

EventStreams ==
    {joinWith(ls, "\n") \o end : ls \in SeqsUpTo(StreamLines, MaxLines),
                                 end \in {"\n", ""}}

RunnerVariants == {"runClaude", "runClaudeStreaming"}

SpawnFailureCodes == {-2}

\* the child as its handlers see it
RunnerChild(spawned, stdoutBytes, stderrBytes, spawnError) ==
    [spawned |-> spawned, stream |-> stdoutBytes, pending |-> stdoutBytes,
     stderrPending |-> stderrBytes, spawnError |-> spawnError,
     received |-> "", buffer |-> "", finalOutput |-> "", stderr |-> "",
     closed |-> FALSE, errored |-> FALSE, code |-> 0, first |-> "none"]

InitRunner ==
    /\ entry = "runner"
    /\ config = Null
    /\ pc = "runner"
    /\ pr = Null
    /\ diff = ""
    /\ comments = <<>>
    /\ triggerComment = Null
    /\ userRequest = ""
    /\ isActionable = FALSE
    /\ \E variant \in RunnerVariants :
          /\ invocation = [variant |-> variant]
          /\ \/ \E bytes \in (IF variant = "runClaude" THEN DocumentStreams
                              ELSE EventStreams), err \in Stderrs :
                   child = RunnerChild(TRUE, bytes, err, "")
             \/ \E message \in SpawnErrors :
                   child = RunnerChild(FALSE, "", "", message)
    /\ result = Null
    /\ calls = <<>>
    /\ modeResult = Null
    /\ exitCode = -1
    /\ unit = NoUnit

\* where the pipe may cut what the child wrote into chunks: at the end of
\* the text, after a newline, inside a JSON object (after a colon) and
\* inside a multi-byte character
ChunkEnds(pending) ==
    {n \in 1..Len(pending) :
        n = Len(pending) \/ At(pending, n) \in {"\n", ":", LeadByte}}

\* child.stdout.on("data")
RunnerStdoutData ==
    /\ entry = "runner"
    /\ child.spawned /\ ~child.closed /\ child.pending # ""
    /\ \E n \in ChunkEnds(child.pending) :
          LET chunk == SubSeq(child.pending, 1, n)
              rest == SubSeq(child.pending, n + 1, Len(child.pending))
              text == BufferToString(chunk)
          IN IF invocation.variant = "runClaude"
             THEN child' = [child EXCEPT !.pending = rest,
                                         !.received = @ \o text]
             ELSE LET st == StreamingOnData(child, chunk)
                  IN child' = [child EXCEPT !.pending = rest,
                                            !.received = @ \o text,
                                            !.buffer = st.buffer,
                                            !.finalOutput = st.finalOutput]
    /\ UNCHANGED <<entry, config, pc, modeVars, invocation, result, calls,
                   modeResult, exitCode, unit>>

\* child.stderr.on("data")
RunnerStderrData ==
    /\ entry = "runner"
    /\ child.spawned /\ ~child.closed /\ child.stderrPending # ""
    /\ child' = [child EXCEPT !.stderrPending = "",
                              !.stderr = @ \o BufferToString(child.stderrPending)]
    /\ UNCHANGED <<entry, config, pc, modeVars, invocation, result, calls,
                   modeResult, exitCode, unit>>

\* a variant in which every call settles the promise again
Resolve_lastWins(value) == result' = value

\* resolve(value): only the first call settles the promise
Resolve(value) == result' = IF result = Null THEN value ELSE result

\* child.on("close"): emitted once, after the stdio streams have ended
RunnerClose ==
    /\ entry = "runner"
    /\ ~child.closed /\ child.pending = "" /\ child.stderrPending = ""
    /\ \E code \in (IF child.spawned THEN ExitCodes ELSE SpawnFailureCodes) :
          /\ child' = [child EXCEPT !.closed = TRUE, !.code = code,
                          !.first = IF @ = "none" THEN "close" ELSE @]
          /\ Resolve(IF invocation.variant = "runClaude"
                     THEN CloseResult(code,
                                      [raw |-> child.received,
                                       json |-> JsonParse(child.received)],
                                      child.stderr)
                     ELSE StreamingCloseResult(code, child.finalOutput,
                                               child.stderr))
    /\ UNCHANGED <<entry, config, pc, modeVars, invocation, calls, modeResult,
                   exitCode, unit>>

\* child.on("error"): the process could not be spawned
RunnerError ==
    /\ entry = "runner"
    /\ ~child.spawned /\ ~child.errored
    /\ child' = [child EXCEPT !.errored = TRUE,
                    !.first = IF @ = "none" THEN "error" ELSE @]
    /\ Resolve(ErrorResult(child.spawnError))
    /\ UNCHANGED <<entry, config, pc, modeVars, invocation, calls, modeResult,
                   exitCode, unit>>

NextRunner ==
    \/ RunnerStdoutData
    \/ RunnerStderrData
    \/ RunnerClose
    \/ RunnerError

SpecRunner == InitRunner /\ [][NextRunner]_vars

(***************************************************************************)
(* Vocabulary of the properties.                                           *)
(***************************************************************************)
InTagRun == entry = "runTagMode" \/ (entry = "main" /\ config.mode = "tag")

InReviewRun == entry = "runReviewMode" \/ (entry = "main" /\ config.mode = "review")

Invoked == invocation # Null

Returned == modeResult # Null

CallsOf(op) == {i \in DOMAIN calls : calls[i].op = op}

StartsWith(s, prefix) == Len(s) >= Len(prefix) /\ SubSeq(s, 1, Len(prefix)) = prefix

IsActionablePrompt(p) == StartsWith(p, "\n# Pull Request Task\n")

IsInformationalPrompt(p) == StartsWith(p, "\n# Pull Request Question\n")

WriteTools == {"Write", "Edit", "MultiEdit", "Bash"}

IsFullAccess(inv) ==
    /\ inv.allowedTools = <<"Read", "Edit", "Write", "Grep", "Glob", "Bash">>
    /\ inv.blockedTools = <<>>

IsReadOnly(inv) ==
    /\ inv.allowedTools = <<"Read", "Grep", "Glob">>
    /\ inv.blockedTools = <<"Write", "Edit", "MultiEdit", "Bash">>

(***************************************************************************)
(* C1: in tag mode the assistant runs under the full-access policy exactly *)
(* when classifyRequest returned Actionable for the extracted request; in  *)
(* every other run it runs under the read-only policy; the prompt variant  *)
(* always matches the policy.                                              *)
(***************************************************************************)
C1_PolicyMatchesClassification ==
    Invoked =>
        IF InTagRun /\ classifyRequest(userRequest)
        THEN /\ IsFullAccess(invocation)
             /\ IsActionablePrompt(invocation.prompt)
        ELSE /\ IsReadOnly(invocation)
             /\ ~IsActionablePrompt(invocation.prompt)
             /\ InTagRun => IsInformationalPrompt(invocation.prompt)

C1_Witness ==
    /\ InTagRun
    /\ Invoked
    /\ classifyRequest(userRequest)
    /\ IsFullAccess(invocation)
    /\ child.state = "closed"

(***************************************************************************)
(* C2: in review mode every invocation of the assistant is read-only: none *)
(* of Write, Edit, MultiEdit, Bash is allowed and all four are blocked.    *)
(***************************************************************************)
C2_ReviewReadOnly ==
    (InReviewRun /\ Invoked) =>
        /\ Range(invocation.allowedTools) \cap WriteTools = {}
        /\ WriteTools \subseteq Range(invocation.blockedTools)

C2_Witness ==
    /\ InReviewRun
    /\ Invoked
    /\ child.state = "closed"
    /\ "Bash" \in Range(invocation.blockedTools)

(***************************************************************************)
(* C3: classifyRequest(text) is Actionable exactly when some actionable    *)
(* pattern matches the lower-cased text: a text matching both an           *)
(* actionable and an informational pattern is Actionable, a text matching  *)
(* no actionable pattern is Informational ("hello").                       *)
(***************************************************************************)
C3_ActionableIffPatternMatches ==
    unit.fn = "classifyRequest" =>
        LET lower == toLowerCase(unit.text)
            anyActionable == \E i \in DOMAIN ACTIONABLE_PATTERNS :
                                 RegexTest(ACTIONABLE_PATTERNS[i], lower)
        IN /\ unit.returned = anyActionable
           /\ unit.text = "hello" => unit.returned = FALSE

C3_Witness ==
    /\ unit.fn = "classifyRequest"
    /\ SomeMatch(ACTIONABLE_PATTERNS, toLowerCase(unit.text))
    /\ SomeMatch(INFORMATIONAL_PATTERNS, toLowerCase(unit.text))
    /\ unit.returned = TRUE

(***************************************************************************)
(* C4: extractRequest(content, trigger) returns the trimmed text after the *)
(* first case-insensitive occurrence of the trigger; content unchanged     *)
(* when the trigger does not occur or when nothing but white space follows *)
(* it; so it never returns "" for a content that contains the trigger.     *)
(***************************************************************************)
EqualsIgnoreCase(a, b) ==
    /\ Len(a) = Len(b)
    /\ \A i \in 1..Len(a) : LowerChar(At(a, i)) = LowerChar(At(b, i))

TriggerOffsets(content, trigger) ==
    {i \in 0..(Len(content) - Len(trigger)) :
        EqualsIgnoreCase(SubSeq(content, i + 1, i + Len(trigger)), trigger)}

IsTrimmed(s) ==
    s # "" => (At(s, 1) \notin WhiteSpace /\ At(s, Len(s)) \notin WhiteSpace)

C4_ExtractRequest ==
    unit.fn = "extractRequest" =>
        LET content == unit.text
            trigger == unit.triggerPhrase
            offsets == TriggerOffsets(content, trigger)
            first == CHOOSE i \in offsets : \A j \in offsets : i <= j
            rest == SubSeq(content, first + Len(trigger) + 1, Len(content))
        IN IF offsets = {} THEN unit.returned = content
           ELSE /\ unit.returned # ""
                /\ IF \A i \in 1..Len(rest) : At(rest, i) \in WhiteSpace
                   THEN unit.returned = content
                   ELSE /\ IsTrimmed(unit.returned)
                        /\ \E a, b \in 0..Len(rest) :
                              /\ rest = SubSeq(rest, 1, a) \o unit.returned
                                             \o SubSeq(rest, Len(rest) - b + 1, Len(rest))
                              /\ \A i \in 1..a : At(rest, i) \in WhiteSpace
                              /\ \A i \in (Len(rest) - b + 1)..Len(rest) :
                                    At(rest, i) \in WhiteSpace

C4_Witness ==
    /\ unit.fn = "extractRequest"
    /\ TriggerOffsets(unit.text, unit.triggerPhrase) # {}
    /\ Len(unit.text) > Len(unit.triggerPhrase)
    /\ trim(substring(unit.text,
                      indexOf(toLowerCase(unit.text), toLowerCase(unit.triggerPhrase))
                      + Len(unit.triggerPhrase))) = ""
    /\ unit.returned = unit.text

(***************************************************************************)
(* C5: the host token is optional: with workspace, repo slug and API key   *)
(* set and no token, configuration validation does not abort the run.      *)
(***************************************************************************)
C5_TokenIsOptional ==
    [][(/\ pc = "main_validate"
        /\ config.workspace # ""
        /\ config.repoSlug # ""
        /\ config.anthropicApiKey # ""
        /\ config.bitbucketToken = "") => pc' = "main_dispatch"]_vars

(***************************************************************************)
(* C6 (as stated): runReviewMode calls postComment exactly once when the   *)
(* invocation succeeded and a host token is configured, and never          *)
(* otherwise; reviewPosted is true exactly when the post returned a        *)
(* comment record.                                                         *)
(***************************************************************************)
PostResponses == {calls[i].response : i \in CallsOf("postComment")}

C6_PostIffSuccessAndToken ==
    (InReviewRun /\ Returned) =>
        /\ Cardinality(CallsOf("postComment")) =
              IF result # Null /\ result.success /\ config.bitbucketToken # ""
              THEN 1 ELSE 0
        /\ modeResult.reviewPosted <=> (PostResponses \cap CreatedComments # {})

(***************************************************************************)
(* C6 (amended): runReviewMode calls postComment exactly once when the     *)
(* invocation succeeded with a non-empty output and a host token is        *)
(* configured, and never otherwise; reviewPosted is true exactly when the  *)
(* post returned a comment record.                                         *)
(***************************************************************************)
C6_PostIffOutputAndToken ==
    /\ InReviewRun => Cardinality(CallsOf("postComment")) <= 1
    /\ (InReviewRun /\ Returned) =>
          /\ Cardinality(CallsOf("postComment")) =
                IF /\ result # Null
                   /\ result.success
                   /\ result.output # ""
                   /\ config.bitbucketToken # ""
                THEN 1 ELSE 0
          /\ modeResult.reviewPosted <=> (PostResponses \cap CreatedComments # {})

C6_Witness ==
    /\ InReviewRun
    /\ Returned
    /\ result # Null
    /\ result.success
    /\ Cardinality(CallsOf("postComment")) = 1
    /\ modeResult.reviewPosted

(***************************************************************************)
(* C7: in review mode the assistant is invoked only with a non-empty diff  *)
(* that passed the diff filter under the project's include/exclude globs:  *)
(* the prompt holds no file chunk whose destination path fails             *)
(* shouldIncludeFile, and a diff that is empty after filtering ends the    *)
(* run without an invocation.                                              *)
(***************************************************************************)
PromptDiff(prompt) ==
    SubSeq(prompt, indexOf(prompt, DiffFenceOpen) + Len(DiffFenceOpen) + 1,
           Len(prompt) - Len(DiffFenceClose))

ReviewInclude == IF config.projectConfig = Null THEN <<>>
                 ELSE config.projectConfig.review.include

ReviewExclude == IF config.projectConfig = Null THEN <<>>
                 ELSE config.projectConfig.review.exclude

C7_PromptDiffIsFiltered ==
    (InReviewRun /\ Invoked) =>
        LET shown == PromptDiff(invocation.prompt)
            chunks == SplitBeforeHeader(shown)
        IN /\ shown # ""
           /\ filterDiffByPatterns(diff, ReviewInclude, ReviewExclude) # ""
           /\ \A k \in DOMAIN chunks :
                 HeaderDestPath(chunks[k]) # "" =>
                     shouldIncludeFile(HeaderDestPath(chunks[k]),
                                       ReviewInclude, ReviewExclude)

(***************************************************************************)
(* C8 (as stated): on a successful invocation in tag mode with a host      *)
(* token configured, runTagMode replies to the trigger comment with the    *)
(* output; responded is true exactly when that reply was created, and then *)
(* commentId is the new reply's id; otherwise success:true,                *)
(* responded:false.                                                        *)
(***************************************************************************)
OutputReplies ==
    {i \in CallsOf("replyToComment") :
        /\ calls[i].parentId = triggerComment.id
        /\ calls[i].prId = config.prId
        /\ calls[i].content = result.output}

C8_ReplyOnSuccessWithToken ==
    (InTagRun /\ Returned /\ result # Null /\ result.success
        /\ config.bitbucketToken # "") =>
        /\ Cardinality(OutputReplies) = 1
        /\ modeResult.success
        /\ modeResult.responded <=>
              \E i \in OutputReplies : calls[i].response \in CreatedComments
        /\ modeResult.responded =>
              \E i \in OutputReplies : calls[i].response.id = modeResult.commentId

(***************************************************************************)
(* C8 (amended): on a successful invocation in tag mode with a non-empty   *)
(* output and a host token configured, runTagMode replies to the trigger   *)
(* comment with the output; responded is true only when that reply was     *)
(* created, and then commentId is the new reply's id; in every other       *)
(* successful run the result is success:true, responded:false and no reply *)
(* is sent.                                                                *)
(***************************************************************************)
C8_ReplyOnOutputWithToken ==
    (InTagRun /\ Returned /\ result # Null /\ result.success) =>
        /\ modeResult.success
        /\ IF result.output # "" /\ config.bitbucketToken # ""
           THEN /\ Cardinality(OutputReplies) = 1
                /\ CallsOf("replyToComment") = OutputReplies
                /\ modeResult.responded <=>
                      \E i \in OutputReplies : calls[i].response \in CreatedComments
                /\ modeResult.responded =>
                      \E i \in OutputReplies :
                          calls[i].response.id = modeResult.commentId
           ELSE /\ CallsOf("replyToComment") = {}
                /\ ~modeResult.responded

C8_Witness ==
    /\ InTagRun
    /\ Returned
    /\ result # Null
    /\ result.success
    /\ modeResult.responded
    /\ modeResult.commentId = 501
    /\ Cardinality(OutputReplies) = 1

(***************************************************************************)
(* C9: on invocation failure runTagMode returns success:false,             *)
(* responded:false and the runner's error text, after at most one reply to *)
(* the trigger comment that carries that text; the result does not depend  *)
(* on the outcome of that reply.                                           *)
(***************************************************************************)
EndsWith(s, suffix) ==
    Len(s) >= Len(suffix) /\ SubSeq(s, Len(s) - Len(suffix) + 1, Len(s)) = suffix

C9_FailureResult ==
    (InTagRun /\ result # Null /\ ~result.success) =>
        /\ Cardinality(CallsOf("replyToComment")) <= 1
        /\ \A i \in CallsOf("replyToComment") :
              /\ calls[i].parentId = triggerComment.id
              /\ EndsWith(calls[i].content, result.error)
        /\ Returned =>
              /\ modeResult.success = FALSE
              /\ modeResult.responded = FALSE
              /\ modeResult.error = result.error
              /\ modeResult.commentId = 0

C9_Witness ==
    /\ InTagRun
    /\ Returned
    /\ result # Null
    /\ ~result.success
    /\ \E i \in CallsOf("replyToComment") : calls[i].response \in CreatedComments
    /\ modeResult.error = "boom"

(***************************************************************************)
(* C10: findTriggerComment returns, among the comments whose text contains *)
(* the trigger (case-insensitive), the one with the latest created_on and, *)
(* among equals, the earliest in list order; it returns null, and the run  *)
(* ends with success:true, responded:false and no invocation, exactly when *)
(* no comment contains the trigger.                                        *)
(***************************************************************************)
TriggeredPositions ==
    {i \in DOMAIN comments :
        TriggerOffsets(comments[i].content.raw, config.triggerPhrase) # {}}

CommentsFetched ==
    /\ InTagRun
    /\ CallsOf("getComments") # {}
    /\ \A i \in CallsOf("getComments") : calls[i].response # Pending

InRunner(variant) == entry = "runner" /\ invocation.variant = variant

\* the promise was settled by the close handler
SettledByClose == entry = "runner" /\ child.first = "close"

TextAfterLastNewline(text) ==
    LET lines == SplitLines(text) IN lines[Len(lines)]

\* the newline-terminated lines of a text
CompleteLines(text) ==
    LET lines == SplitLines(text) IN SubSeq(lines, 1, Len(lines) - 1)

\* the text an event line carries as assistant text / as result text
AssistantText(line) ==
    LET event == ParseEvent(line)
    IN IF trim(line) # "" /\ event # Null /\ event.type = "assistant"
       THEN AppendBlocks("", event.message.content) ELSE ""

ResultText(line) ==
    LET event == ParseEvent(line)
    IN IF trim(line) # "" /\ event # Null /\ event.type = "result"
       THEN event.result ELSE ""

AllAssistantText(lines) ==
    joinWith([i \in DOMAIN lines |-> AssistantText(lines[i])], "")

\* the text of the first result event that arrives before any assistant text
LeadingResultText(lines) ==
    LET leading == {j \in DOMAIN lines :
                       /\ ResultText(lines[j]) # ""
                       /\ \A i \in 1..j : AssistantText(lines[i]) = ""}
    IN IF leading = {} THEN ""
       ELSE ResultText(lines[CHOOSE j \in leading : \A k \in leading : j <= k])

(***************************************************************************)
(* C11: however the bytes the child wrote are cut into data chunks,        *)
(* runClaudeStreaming ends with the same accumulated text as when they     *)
(* arrive in one chunk, and its buffer always holds the text received      *)
(* after the last newline.                                                 *)
(***************************************************************************)
C11_ChunkingDoesNotMatter ==
    (InRunner("runClaudeStreaming") /\ child.spawned) =>
        /\ child.buffer = TextAfterLastNewline(child.received)
        /\ child.pending = "" =>
              child.finalOutput =
                  StreamingOnData([buffer |-> "", finalOutput |-> ""],
                                  child.stream).finalOutput

(***************************************************************************)
(* C12 as stated: when the event lines runClaudeStreaming received hold a   *)
(* non-empty assistant text block, its output is the trimmed concatenation *)
(* of all assistant text blocks, wherever result events occur; a result    *)
(* text is the output only when there is no assistant text.                *)
(***************************************************************************)
C12_AssistantTextAlwaysWins ==
    (InRunner("runClaudeStreaming") /\ SettledByClose) =>
        LET lines == CompleteLines(child.received)
            texts == AllAssistantText(lines)
        IN /\ texts # "" => result.output = trim(texts)
           /\ (texts = "" /\ result.output # "") =>
                 \E i \in DOMAIN lines : result.output = trim(ResultText(lines[i]))

(***************************************************************************)
(* C12 amended: the output of runClaudeStreaming is the trimmed            *)
(* concatenation, in arrival order, of the assistant text blocks of the    *)
(* newline-terminated lines it received, preceded by the text of the first *)
(* result event if that event arrived before any assistant text; a result  *)
(* event that arrives after assistant text changes nothing.                *)
(***************************************************************************)
C12_AssistantTextWinsOverLaterResult ==
    (InRunner("runClaudeStreaming") /\ SettledByClose) =>
        LET lines == CompleteLines(child.received)
        IN result.output = trim(LeadingResultText(lines) \o AllAssistantText(lines))

C12_Witness ==
    /\ InRunner("runClaudeStreaming") /\ SettledByClose
    /\ LET lines == CompleteLines(child.received)
       IN /\ \E i, j \in DOMAIN lines :
                i < j /\ AssistantText(lines[i]) # "" /\ ResultText(lines[j]) # ""
          /\ result.output = trim(AllAssistantText(lines))
          /\ result.output # ""

(***************************************************************************)
(* C13: in both runners exit code 0 gives success:true; any other exit     *)
(* code gives success:false, with the captured stderr as error when it is  *)
(* not empty and the generic "Exit code: N" message when it is empty, and  *)
(* with the captured output.                                               *)
(***************************************************************************)
C13_ExitCodePolicy ==
    SettledByClose =>
        /\ child.code = 0 => result.success
        /\ child.code # 0 =>
              /\ ~result.success
              /\ result.error = IF child.stderr # "" THEN child.stderr
                                ELSE "Exit code: " \o ToString(child.code)
              /\ result.output = IF invocation.variant = "runClaude"
                                 THEN trim(child.received)
                                 ELSE trim(child.finalOutput)

C15_UsageFromAnyField ==
    (InRunner("runClaude") /\ SettledByClose /\ child.code = 0
        /\ JsonParse(child.received) \notin {Null, JsNull}) =>
        LET json == JsonParse(child.received)
            hasUsage == \/ json.usage # Null
                        \/ json.input_tokens # 0
                        \/ json.output_tokens # 0
                        \/ json.cost_usd # -1
        IN /\ json.result.type = "string" => result.output = json.result.value
           /\ json.result.type = "object" => result.output = json.result.text
           /\ (result.usage # Null) <=> hasUsage
           /\ result.usage # Null =>
                 result.usage.totalTokens =
                     result.usage.inputTokens + result.usage.outputTokens
           /\ (json.usage # Null /\ json.usage.input_tokens = 10
                 /\ json.usage.output_tokens = 5) =>
                 (result.output = "LGTM" /\ result.usage.totalTokens = 15)

(***************************************************************************)
(* C16: when the process exits with code 0 and its stdout is not a JSON    *)
(* document the parser can read, runClaude still resolves with             *)
(* success:true, the trimmed raw stdout as output and no usage record.     *)
(***************************************************************************)
C16_ParseDegradation ==
    (InRunner("runClaude") /\ SettledByClose /\ child.code = 0
        /\ JsonParse(child.received) \in {Null, JsNull}) =>
        result = [success |-> TRUE, output |-> trim(child.received),
                  error |-> "", usage |-> Null]

C16_Witness ==
    /\ InRunner("runClaude") /\ SettledByClose /\ child.code = 0
    /\ child.received = "Error: not json\n"
    /\ JsonParse(child.received) = Null
    /\ result.success /\ result.output = "Error: not json"

(***************************************************************************)
(* C17: a failure on a best-effort path never fails the run: a mode body   *)
(* returns success:false only when the PR id is missing or the assistant   *)
(* invocation failed; when getPullRequest returned null the run goes on,   *)
(* and when postComment / replyToComment returned null after a successful  *)
(* invocation the result is success:true with reviewPosted:false /         *)
(* responded:false.                                                        *)
(***************************************************************************)
NotDelivered(r) == IF InReviewRun THEN ~r.reviewPosted ELSE ~r.responded

HostOperations == {"getPullRequest", "getComments", "postComment", "replyToComment"}

C18_AtMostOnce ==
    /\ [](\A op \in HostOperations : Cardinality(CallsOf(op)) <= 1)
    /\ [][invocation # Null => invocation' = invocation]_vars
    /\ [][(child # NoChild /\ child' # child) => child'.state # "running"]_vars

C18_Witness ==
    /\ InTagRun /\ Returned /\ Invoked
    /\ child.state = "closed" /\ ~result.success
    /\ Cardinality(CallsOf("getComments")) = 1
    /\ \E i \in CallsOf("replyToComment") :
          /\ calls[i].response = Null
          /\ calls[i].content = ErrorReplyText(result.error)

(***************************************************************************)
(* C19: shouldIncludeFile(path, include, exclude) is true exactly when the *)
(* path matches no exclude pattern and the include list is absent or empty *)
(* or holds a pattern the path matches; a path matching both an include    *)
(* and an exclude pattern is rejected.                                     *)
(***************************************************************************)
MatchesSome(path, patterns) ==
    \E i \in DOMAIN patterns : matchesPattern(path, patterns[i])

C19_ExcludeWins ==
    unit.fn = "shouldIncludeFile" =>
        /\ unit.returned <=>
              /\ ~MatchesSome(unit.path, unit.exclude)
              /\ (unit.include = <<>> \/ MatchesSome(unit.path, unit.include))
        /\ (MatchesSome(unit.path, unit.include)
              /\ MatchesSome(unit.path, unit.exclude)) => ~unit.returned

C19_Witness ==
    /\ unit.fn = "shouldIncludeFile"
    /\ MatchesSome(unit.path, unit.include)
    /\ MatchesSome(unit.path, unit.exclude)
    /\ unit.returned = FALSE

(***************************************************************************)
(* Glob matching as the documentation words it: an anchored match of the   *)
(* whole path in which "**" matches any run of characters holding none of  *)
(* the characters stop, "*" any run without "/", "?" one character other   *)
(* than "/", and every other character itself.                             *)
(***************************************************************************)
RECURSIVE GlobMatch(_, _, _, _, _)
GlobMatch(path, i, pattern, j, stop) ==
    IF j > Len(pattern) THEN i > Len(path)
    ELSE IF j < Len(pattern) /\ SubSeq(pattern, j, j + 1) = "**"
    THEN \E k \in i..(Len(path) + 1) :
            /\ \A m \in i..(k - 1) : At(path, m) \notin stop
            /\ GlobMatch(path, k, pattern, j + 2, stop)
    ELSE IF At(pattern, j) = "*"
    THEN \E k \in i..(Len(path) + 1) :
            /\ \A m \in i..(k - 1) : At(path, m) # "/"
            /\ GlobMatch(path, k, pattern, j + 1, stop)
    ELSE IF At(pattern, j) = "?"
    THEN i <= Len(path) /\ At(path, i) # "/"
         /\ GlobMatch(path, i + 1, pattern, j + 1, stop)
    ELSE i <= Len(path) /\ At(path, i) = At(pattern, j)
         /\ GlobMatch(path, i + 1, pattern, j + 1, stop)

GlobExampleResults ==
    /\ (unit.path = "src/file.ts" /\ unit.pattern = "**/*.ts") => unit.returned
    /\ (unit.path = "src/file.ts" /\ unit.pattern = "*.ts") => ~unit.returned
    /\ (unit.path = "package-lock.json" /\ unit.pattern = "*.lock") => ~unit.returned

C23_FieldsResolvedIndependently ==
    unit.fn = "mergeToolConfig" =>
        LET def == unit.defaultConfig
            over == unit.projectConfig
        IN /\ over = Null => unit.returned = def
           /\ over # Null =>
                 /\ unit.returned.allowedTools =
                       (IF over.allowed # <<>> THEN over.allowed ELSE def.allowedTools)
                 /\ unit.returned.blockedTools =
                       (IF over.blocked # <<>> THEN over.blocked ELSE def.blockedTools)

C23_Witness ==
    /\ unit.fn = "mergeToolConfig"
    /\ unit.defaultConfig = TOOL_CONFIGS.fullAccess
    /\ unit.projectConfig = [allowed |-> <<"Read">>, blocked |-> <<>>]
    /\ unit.returned = [allowedTools |-> <<"Read">>,
                        blockedTools |-> TOOL_CONFIGS.fullAccess.blockedTools]

(***************************************************************************)
(* C24: the two built-in policies, readOnly and fullAccess, have no tool   *)
(* name in both allowedTools and blockedTools.                             *)
(***************************************************************************)
NoOverlap(policy) == Range(policy.allowedTools) \cap Range(policy.blockedTools) = {}

C24_BuiltInsHaveNoOverlap ==
    /\ NoOverlap(TOOL_CONFIGS.readOnly)
    /\ NoOverlap(TOOL_CONFIGS.fullAccess)
    /\ (unit.fn = "mergeToolConfig" /\ unit.projectConfig = Null) =>
          NoOverlap(unit.returned)

C24_Witness ==
    /\ unit.fn = "mergeToolConfig" /\ unit.projectConfig = Null
    /\ unit.returned = TOOL_CONFIGS.readOnly
    /\ unit.returned.allowedTools # <<>> /\ unit.returned.blockedTools # <<>>

(***************************************************************************)
(* C25: every policy mergeToolConfig derives from a built-in default and a *)
(* project override has no tool name in both allowedTools and blockedTools.*)
(***************************************************************************)
C25_MergedHaveNoOverlap ==
    unit.fn = "mergeToolConfig" => NoOverlap(unit.returned)

(***************************************************************************)
(* Vocabulary of the diff filter's properties.                             *)
(***************************************************************************)
\* the predicate of the filter, written with MatchesSome
PassesPatterns(path, include, exclude) ==
    /\ ~MatchesSome(path, exclude)
    /\ include = <<>> \/ MatchesSome(path, include)

DiffCall == unit.fn = "filterDiffByPatterns"

Patterned == unit.include # <<>> \/ unit.exclude # <<>>

\* the file chunks of a diff: the pieces that start at a line that begins
\* with diff --git (and the text before the first such line)
HeaderLineStarts(s) ==
    {p \in Occurrences(s, "diff --git") : p = 0 \/ At(s, p) = "\n"}

FileChunksOf(s) ==
    LET cuts == HeaderLineStarts(s) \ {0}
        ends == cuts \cup {Len(s)}
    IN {SubSeq(s, b + 1, CHOOSE e \in ends : e > b /\ \A m \in ends : m > b => e <= m) :
            b \in {c \in cuts \cup {0} : c < Len(s)}}

(***************************************************************************)
(* C21 as stated: the output of filterDiffByPatterns is the concatenation, *)
(* in order, of the chunks it keeps, where a chunk with a valid header is  *)
(* kept iff its destination path passes the patterns and every chunk       *)
(* without a valid header is kept verbatim.                                *)
(***************************************************************************)
C21_KeepsChunksVerbatim ==
    DiffCall =>
        LET Kept(chunk) ==
                \/ HeaderDestPath(chunk) = ""
                \/ PassesPatterns(HeaderDestPath(chunk), unit.include, unit.exclude)
        IN unit.returned = join(SelectSeq(SplitBeforeHeader(unit.diff), Kept))

(***************************************************************************)
(* C21 amended: when a pattern list is supplied, the output is the         *)
(* concatenation, in order, of the kept chunks, where a whitespace-only    *)
(* chunk is dropped, any other chunk without a valid header is kept        *)
(* verbatim, and a chunk with a valid header is kept iff its destination   *)
(* path passes the patterns; without patterns the output is the input.     *)
(***************************************************************************)
C21_KeepsNonBlankChunksVerbatim ==
    DiffCall =>
        LET Kept(chunk) ==
                /\ trim(chunk) # ""
                /\ \/ HeaderDestPath(chunk) = ""
                   \/ PassesPatterns(HeaderDestPath(chunk), unit.include, unit.exclude)
        IN unit.returned = IF Patterned
                           THEN join(SelectSeq(SplitBeforeHeader(unit.diff), Kept))
                           ELSE unit.diff

C21_Witness ==
    /\ DiffCall /\ Patterned
    /\ unit.diff = "index on main\n" \o "diff --git a/vendor/b.php b/vendor/b.php\n-y\n"
    /\ unit.returned = "index on main\n"

(***************************************************************************)
(* C22: with neither an include nor an exclude list, filterDiffByPatterns  *)
(* returns its input diff unchanged and filterFilesByPatterns returns its  *)
(* input list unchanged.                                                   *)
(***************************************************************************)
C22_NoPatternsIsIdentity ==
    ~Patterned =>
        /\ DiffCall => unit.returned = unit.diff
        /\ unit.fn = "filterFilesByPatterns" => unit.returned = unit.files

C22_Witness ==
    /\ DiffCall /\ ~Patterned
    /\ unit.diff = "\n" \o "diff --git a/c.lock b/c.lock\n+z\n"
    /\ unit.returned = unit.diff

(***************************************************************************)
(* C27: a header quoted inside a content line starts no new chunk: every   *)
(* file chunk of the input whose destination path passes the patterns      *)
(* appears in the output complete and verbatim.                            *)
(***************************************************************************)
C27_PassingChunksComplete ==
    DiffCall =>
        \A chunk \in FileChunksOf(unit.diff) :
            (/\ HeaderDestPath(chunk) # ""
             /\ PassesPatterns(HeaderDestPath(chunk), unit.include, unit.exclude))
            => includes(unit.returned, chunk)

(***************************************************************************)
(* C26: the polite-request rule grants Actionable only when change, fix,   *)
(* add or update occurs as a word after the polite phrase: a request in    *)
(* which those letters occur only inside another word, and to which no     *)
(* other actionable pattern applies, is classified Informational.          *)
(***************************************************************************)
PoliteThenWord(s) ==
    \E p \in ACTIONABLE_PATTERNS[2].phrases : \E i \in Occurrences(s, p) :
        /\ WordBoundary(s, i)
        /\ \E k \in ACTIONABLE_PATTERNS[2].keywords : \E j \in Occurrences(s, k) :
              /\ j >= i + Len(p)
              /\ WordBoundary(s, j) /\ WordBoundary(s, j + Len(k))

C26_PoliteRuleNeedsWord ==
    unit.fn = "classifyRequest" =>
        LET lower == toLowerCase(unit.text)
        IN (/\ ~PoliteThenWord(lower)
            /\ ~RegexTest(ACTIONABLE_PATTERNS[1], lower)
            /\ ~RegexTest(ACTIONABLE_PATTERNS[3], lower))
           => unit.returned = FALSE

(***************************************************************************)
(* C28: when the child exits in streaming mode every event line it wrote   *)
(* has contributed to the output, also a last line without a newline: the  *)
(* text left in the buffer at close is processed like any other line.      *)
(***************************************************************************)
C28_LeftoverBufferIsProcessed ==
    (InRunner("runClaudeStreaming") /\ SettledByClose) =>
        LET lines == SplitLines(child.received)
        IN result.output = trim(LeadingResultText(lines) \o AllAssistantText(lines))

(***************************************************************************)
(* C29: a pattern **/X matches every path whose last segment matches X,    *)
(* also a path without a directory part: matchesPattern("file.ts",         *)
(* "**/*.ts") is true, and with exclude ["**/*.generated.ts"]              *)
(* shouldIncludeFile("types.generated.ts") is false.                       *)
(***************************************************************************)
LastSegment(path) ==
    LET slashes == {i \in 1..Len(path) : At(path, i) = "/"}
    IN IF slashes = {} THEN path
       ELSE SubSeq(path, (CHOOSE i \in slashes : \A j \in slashes : j <= i) + 1, Len(path))

C29_GlobstarMatchesRootFiles ==
    /\ unit.fn = "matchesPattern" =>
          LET path == ReplaceAll(unit.path, "\\", "/")
              pattern == ReplaceAll(unit.pattern, "\\", "/")
              X == SubSeq(pattern, 4, Len(pattern))
          IN (/\ Len(pattern) > 3 /\ SubSeq(pattern, 1, 3) = "**/"
              /\ ~includes(X, "/")
              /\ GlobMatch(LastSegment(path), 1, X, 1, LineTerminators)
              /\ \A i \in 1..Len(path) : At(path, i) \notin LineTerminators)
             => unit.returned
    /\ (/\ unit.fn = "shouldIncludeFile"
        /\ unit.path = "types.generated.ts"
        /\ unit.exclude = <<"**/*.generated.ts">>)
       => ~unit.returned

(***************************************************************************)
(* C30: every run of a mode body ends with a ModeResult, given that every  *)
(* awaited call returns and the child emits close or error; the body never *)
(* goes back to an earlier step, and the only place where it waits for     *)
(* something that is not a returning call is the wait for the child, which *)
(* is then still running.                                                  *)
(***************************************************************************)
InModeBody ==
    pc \in {"review_start", "review_await_pr", "review_diff", "review_await_claude",
            "review_await_post", "tag_start", "tag_await_comments",
            "tag_await_claude", "tag_await_error_reply", "tag_await_reply"}

WaitsForChild == pc \in {"review_await_claude", "tag_await_claude"} /\ result = Null

\* the number of steps a mode body can still take from a position
StepsLeft(position) ==
    CASE position \in {"review_start"} -> 5
      [] position \in {"review_await_pr", "tag_start"} -> 4
      [] position \in {"review_diff", "tag_await_comments"} -> 3
      [] position \in {"review_await_claude", "tag_await_claude"} -> 2
      [] position \in {"review_await_post", "tag_await_error_reply",
                       "tag_await_reply"} -> 1
      [] OTHER -> 0

C30_ModeBodyTerminates ==
    /\ InModeBody ~> (modeResult # Null)
    /\ [](WaitsForChild => child.state = "running")
    /\ [][(InModeBody /\ pc' # pc) => StepsLeft(pc') < StepsLeft(pc)]_vars

C30_Witness ==
    /\ modeResult # Null
    /\ pc \in {"done", "main_after_mode"}
    /\ child.state = "closed"
    /\ result # Null

====
